---- MODULE Spec2Model ----
(***************************************************************************)
(* Model of reports/blog_tutorial/_gen_stats.py (statistics helpers) and   *)
(* reports/blog_tutorial/del_ratio.py (the driver script).  Python 2.      *)
(*                                                                         *)
(* Numbers are binary floating point, as in the interpreter: a float is    *)
(* [m, e] with value m * 2^e and a mantissa of MantissaBits bits (53 in    *)
(* CPython; narrower here so that the arithmetic fits TLC's integers).     *)
(* +, -, *, / round to nearest, ties to even.  x ** y is the C library's   *)
(* pow(), which is a function but is not required to round correctly: the  *)
(* library the interpreter runs on (libm) rounds the exact value to        *)
(* nearest, toward zero or away from zero; the exact value is returned     *)
(* when it is representable.  Floats are below 2^MaxExponent in magnitude  *)
(* (2^1024 in CPython): a power or an int-to-float conversion beyond that  *)
(* raises OverflowError.  +, -, *, / do not raise but give an infinity     *)
(* there; infinities, NaN and underflow are outside the model, whose       *)
(* inputs keep sums, products and quotients in range.                      *)
(***************************************************************************)
EXTENDS Integers, Sequences, FiniteSets, TLC

VARIABLES
    pc,           \* position of the running script / call
    libm,         \* how the platform's pow() rounds
    \* confidence_interval_mean(sample_size, sample_sd)
    sample_size, sample_sd, root_n, delta,
    \* get_stat(file_name, stat_name)
    report, stat_name, result,
    \* get_average(numbers), get_std_dev(num)
    num, std,
    \* del_ratio.py
    router, area, i, del_ratio, avg, sd, ci, out, reads, error

vars == <<pc, libm, sample_size, sample_sd, root_n, delta, report, stat_name, result,
          num, std, router, area, i, del_ratio, avg, sd, ci, out, reads, error>>

----------------------------------------------------------------------------
(* Bounds of the model *)

MantissaBits == 11     \* bits of a float's mantissa
MaxSampleSize == 40    \* largest sample_size passed to confidence_interval_mean
MaxNegSize == 3        \* sample sizes down to -MaxNegSize
MaxExponent == 16      \* floats are below 2^MaxExponent in magnitude

----------------------------------------------------------------------------
(* Floating point *)

Zero == [m |-> 0, e |-> 0]

RECURSIVE BitLen(_)
BitLen(n) == IF n = 0 THEN 0 ELSE 1 + BitLen(n \div 2)

Abs(n) == IF n < 0 THEN -n ELSE n

Sign(n) == IF n < 0 THEN -1 ELSE 1

\* The float for the exact value n * 2^e, rounded to MantissaBits bits.
\* mode: "even" (nearest, ties to even), "down" (toward zero), "up" (away).
Round(n, e, mode) ==
    IF n = 0 THEN Zero
    ELSE LET a == Abs(n)
             L == BitLen(a)
         IN  IF L <= MantissaBits
             THEN [m |-> Sign(n) * a * 2^(MantissaBits - L),
                   e |-> e - (MantissaBits - L)]
             ELSE LET sh == L - MantissaBits
                      q == a \div 2^sh
                      r == a % 2^sh
                      half == 2^(sh - 1)
                      up == CASE mode = "even" -> r > half \/ (r = half /\ q % 2 = 1)
                              [] mode = "down" -> FALSE
                              [] mode = "up" -> r > 0
                      q1 == IF up THEN q + 1 ELSE q
                  IN  IF q1 = 2^MantissaBits
                      THEN [m |-> Sign(n) * 2^(MantissaBits - 1), e |-> e + sh + 1]
                      ELSE [m |-> Sign(n) * q1, e |-> e + sh]

\* a / b (b > 0) as an integer with at least MantissaBits + 2 bits and a
\* sticky last bit, with the power of two it is scaled by.
Widen(a, b) ==
    IF BitLen(a) < BitLen(b) + MantissaBits + 1
    THEN BitLen(b) + MantissaBits + 1 - BitLen(a)
    ELSE 0

Quotient(a, b, mode) ==
    IF a = 0 THEN Zero
    ELSE LET k == Widen(Abs(a), b)
             q == (Abs(a) * 2^k) \div b
             r == (Abs(a) * 2^k) % b
         IN  Round(Sign(a) * (2 * q + (IF r = 0 THEN 0 ELSE 1)), -k - 1, mode)

Shift(x, d) == IF x.m = 0 THEN x ELSE [m |-> x.m, e |-> x.e + d]

\* int -> float
FromInt(n) == Round(n, 0, "even")

\* A decimal literal or float("...") of a decimal string: n / 10^k, rounded.
Dec(n, d) == Quotient(n, d, "even")

FNeg(x) == [m |-> -x.m, e |-> x.e]

FAdd(x, y) ==
    IF x.m = 0 THEN y
    ELSE IF y.m = 0 THEN x
    ELSE LET hi == IF x.e >= y.e THEN x ELSE y
             lo == IF x.e >= y.e THEN y ELSE x
             d == hi.e - lo.e
         IN  IF d > MantissaBits + 1 THEN hi
             ELSE Round(hi.m * 2^d + lo.m, lo.e, "even")

FSub(x, y) == FAdd(x, FNeg(y))

FMul(x, y) == Round(x.m * y.m, x.e + y.e, "even")

\* x / y, y # 0
FDiv(x, y) == Shift(Quotient(Sign(y.m) * x.m, Abs(y.m), "even"), x.e - y.e)

Libms == {"even", "down", "up"}

\* pow()'s result for the exact value n * 2^e
Pow(n, e) == Round(n, e, libm)

\* x is beyond the largest float
Overflows(x) == x.m # 0 /\ BitLen(Abs(x.m)) + x.e > MaxExponent

RECURSIVE ISqrtIn(_, _, _)
ISqrtIn(n, lo, hi) ==
    IF lo = hi THEN lo
    ELSE LET mid == (lo + hi + 1) \div 2
         IN  IF mid * mid <= n THEN ISqrtIn(n, mid, hi) ELSE ISqrtIn(n, lo, mid - 1)

ISqrt(n) == ISqrtIn(n, 0, 2^(MantissaBits + 2))

\* x ** 0.5, x >= 0
FRoot(x) ==
    IF x.m = 0 THEN Zero
    ELSE LET k == IF (x.e - (MantissaBits + 2)) % 2 = 0
                  THEN MantissaBits + 2 ELSE MantissaBits + 3
             n == x.m * 2^k
             r == ISqrt(n)
         IN  Pow(2 * r + (IF r * r = n THEN 0 ELSE 1), ((x.e - k) \div 2) - 1)

\* '%.<digits>f' % x, as the integer x * 10^digits rounded half to even
Fmt(x, scale) ==
    IF x.e >= 0 THEN x.m * scale * 2^x.e
    ELSE IF -x.e > 30 THEN 0
    ELSE LET a == Abs(x.m) * scale
             q == a \div 2^(-x.e)
             r == a % 2^(-x.e)
             half == 2^(-x.e - 1)
         IN  Sign(x.m) * (IF r > half \/ (r = half /\ q % 2 = 1) THEN q + 1 ELSE q)

----------------------------------------------------------------------------
(* Outcome of a call: a returned value or an uncaught exception *)

Ok(v) == [exc |-> "none", val |-> v]

Raise(x) == [exc |-> x, val |-> Zero]

Unset == [exc |-> "unset", val |-> Zero]

\* a result of pow(): OverflowError when it is out of range
InRange(x) == IF Overflows(x) THEN Raise("OverflowError") ELSE Ok(x)

\* x ** 2
FSquare(x) == InRange(Pow(x.m * x.m, 2 * x.e))

\* the float operand an int is converted to: OverflowError when too large
ToFloat(n) == InRange(FromInt(n))

----------------------------------------------------------------------------
(* _gen_stats.py: get_average and get_std_dev *)

\* avg after the first k passes of the loop of get_average (lines 15-18)
RECURSIVE RunningSum(_, _)
RunningSum(numbers, k) ==
    IF k = 0 THEN Zero ELSE FAdd(RunningSum(numbers, k - 1), numbers[k])

\* avg /= n is a float division: ZeroDivisionError for the empty list
get_average(numbers) ==
    IF Len(numbers) = 0 THEN Raise("ZeroDivisionError")
    ELSE Ok(FDiv(RunningSum(numbers, Len(numbers)), FromInt(Len(numbers))))

\* variance += square, unless an earlier pass or the squaring has raised
AddSquare(variance, square) ==
    IF variance.exc # "none" THEN variance
    ELSE IF square.exc # "none" THEN square
    ELSE Ok(FAdd(variance.val, square.val))

\* variance after the first k passes of the loop of get_std_dev (lines 28-30)
RECURSIVE RunningSquares(_, _, _)
RunningSquares(nums, mean, k) ==
    IF k = 0 THEN Ok(Zero)
    ELSE AddSquare(RunningSquares(nums, mean, k - 1), FSquare(FSub(nums[k], mean)))

DivisorSample(n) == IF n > 1 THEN n - 1 ELSE n

\* variance /= n
Divisor(n) == n

\* lines 31-32, given the variance the loop ends with
RootOfMean(variance, n) ==
    IF variance.exc # "none" THEN variance
    ELSE Ok(FRoot(FDiv(variance.val, FromInt(Divisor(n)))))

get_std_dev(nums) ==
    LET avg0 == get_average(nums)
    IN  IF avg0.exc # "none" THEN avg0
        ELSE RootOfMean(RunningSquares(nums, avg0.val, Len(nums)), Len(nums))

----------------------------------------------------------------------------
(* _gen_stats.py: get_stat.  A report is [exists, text]; text is the file's *)
(* characters, a sequence of one-character strings.                        *)

\* the pieces of s between occurrences of sep (all of them, empty ones too)
RECURSIVE SplitAt(_, _, _, _)
SplitAt(s, sep, k, piece) ==
    IF k > Len(s) THEN <<piece>>
    ELSE IF s[k] = sep THEN <<piece>> \o SplitAt(s, sep, k + 1, <<>>)
    ELSE SplitAt(s, sep, k + 1, Append(piece, s[k]))

\* the lines the file object yields: what a final newline ends is a line,
\* what follows it is one only if not empty
FileLines(text) ==
    LET pieces == SplitAt(text, "\n", 1, <<>>)
    IN  IF pieces[Len(pieces)] = <<>>
        THEN SubSeq(pieces, 1, Len(pieces) - 1)
        ELSE pieces

\* csv.reader(report, delimiter = ' '): an empty line is the empty row
Row(line) == IF line = <<>> THEN <<>> ELSE SplitAt(line, " ", 1, <<>>)

\* s.find(sub): the lowest index at which sub occurs in s, -1 if none
Find(s, sub) ==
    LET at == {k \in 0..(Len(s) - Len(sub)) : SubSeq(s, k + 1, k + Len(sub)) = sub}
    IN  IF at = {} THEN -1 ELSE CHOOSE k \in at : \A j \in at : k <= j

Digits == {"0", "1", "2", "3", "4", "5", "6", "7", "8", "9"}

DigitValue(c) ==
    CASE c = "0" -> 0 [] c = "1" -> 1 [] c = "2" -> 2 [] c = "3" -> 3 [] c = "4" -> 4
      [] c = "5" -> 5 [] c = "6" -> 6 [] c = "7" -> 7 [] c = "8" -> 8 [] c = "9" -> 9

RECURSIVE DigitsValue(_, _)
DigitsValue(s, k) ==
    IF k = 0 THEN 0 ELSE 10 * DigitsValue(s, k - 1) + DigitValue(s[k])

\* float(s) for s made of digits and at most one point; any other string of
\* the model's characters is a ValueError
ParseFloat(s) ==
    LET points == {k \in DOMAIN s : s[k] = "."}
        digits == SelectSeq(s, LAMBDA c : c \in Digits)
    IN  IF \/ digits = <<>>
           \/ Cardinality(points) > 1
           \/ \E k \in DOMAIN s : s[k] \notin Digits \cup {"."}
        THEN Raise("ValueError")
        ELSE LET frac == IF points = {} THEN 0
                         ELSE Len(s) - (CHOOSE k \in points : TRUE)
             IN  Ok(Dec(DigitsValue(digits, Len(digits)), 10^frac))

MatchesAnywhere(label, name) == Find(label, name) >= 0

\* line[0].find(stat_name) == 0
Matches(label, name) == Find(label, name) = 0

RECURSIVE Scan(_, _, _, _)

OnMatchKeepScanning(lines, name, k, res) == Scan(lines, name, k + 1, res)

\* break
OnMatch(lines, name, k, res) == res

\* the loop of get_stat from line k on, result being res so far
Scan(lines, name, k, res) ==
    IF k > Len(lines) THEN res
    ELSE LET line == Row(lines[k])
         IN  IF Len(line) < 1 THEN Raise("IndexError")
             ELSE IF Matches(line[1], name)
             THEN IF Len(line) < 2 THEN Raise("IndexError")
                  ELSE LET v == ParseFloat(line[2])
                       IN  IF v.exc # "none" THEN v ELSE OnMatch(lines, name, k, v)
             ELSE Scan(lines, name, k + 1, res)

get_stat(file, name) ==
    IF ~file.exists THEN Raise("IOError")
    ELSE Scan(FileLines(file.text), name, 1, Ok(Zero))

----------------------------------------------------------------------------
(* _gen_stats.py: the t-table and confidence_interval_mean *)

\* the table's entries in thousandths, by degrees of freedom 1..18
TThousandths ==
    <<12710, 4303, 3182, 2776, 2571, 2447, 2365, 2306, 2262,
      2228, 2201, 2179, 2160, 2145, 2131, 2120, 2110, 2101>>

t_values == [df \in 1..Len(TThousandths) |-> Dec(TThousandths[df], 1000)]

\* 1.96
NormalCritical == Dec(196, 100)

\* __t_values[df]: a KeyError when df is no key
LookupDefaulting(df) ==
    IF df \in DOMAIN t_values THEN Ok(t_values[df]) ELSE Ok(NormalCritical)

Lookup(df) ==
    IF df \in DOMAIN t_values THEN Ok(t_values[df]) ELSE Raise("KeyError")

DegreesOfFreedomOffByOne(n) == n

DegreesOfFreedom(n) == n - 1

\* root_n = sample_size ** 0.5: the int is converted to a float, and
\* Python 2 raises ValueError for a negative base and a fractional exponent
RootN(n) ==
    IF ToFloat(n).exc # "none" THEN ToFloat(n)
    ELSE IF n < 0 THEN Raise("ValueError")
    ELSE Ok(FRoot(ToFloat(n).val))

\* lines 110-118, given root_n
Delta(n, s, r) ==
    IF n < 30
    THEN LET t == Lookup(DegreesOfFreedom(n))
         IN  IF t.exc # "none" THEN t ELSE Ok(FDiv(FMul(t.val, s), r))
    ELSE Ok(FDiv(FMul(NormalCritical, s), r))

confidence_interval_mean(n, s) ==
    LET r == RootN(n)
    IN  IF r.exc # "none" THEN r ELSE Delta(n, s, r.val)

----------------------------------------------------------------------------
(* Idle values of the variables a specification does not use *)

NoReport == [exists |-> FALSE, text |-> <<>>]

NoError == [exc |-> "none", in |-> "none"]

CIIdle ==
    /\ sample_size = 0 /\ sample_sd = Zero /\ root_n = Unset /\ delta = Unset

StatIdle ==
    /\ report = NoReport /\ stat_name = <<>> /\ result = Unset

StdIdle ==
    /\ num = <<>> /\ std = Unset

DriverIdle ==
    /\ router = 0 /\ area = 0 /\ i = 0 /\ del_ratio = <<>>
    /\ avg = Unset /\ sd = Unset /\ ci = Unset
    /\ out = <<>> /\ reads = <<>> /\ error = NoError

CIVars == <<sample_size, sample_sd, root_n, delta>>
StatVars == <<report, stat_name, result>>
StdVars == <<num, std>>
DriverVars == <<router, area, i, del_ratio, avg, sd, ci, out, reads, error>>

----------------------------------------------------------------------------
(* Specification SpecCI: one call of confidence_interval_mean *)

\* the smallest int too large for a float
TooLarge == 2^MaxExponent - 2^(MaxExponent - MantissaBits - 1)

SampleSizes ==
    ((0 - MaxNegSize)..MaxSampleSize) \cup
    {0 - TooLarge, 1 - TooLarge, TooLarge - 1, TooLarge}

SdVals == {Zero, Dec(3, 10), Dec(1, 2), FromInt(1)}

InitCI ==
    /\ pc = "call"
    /\ libm \in Libms
    /\ sample_size \in SampleSizes
    /\ sample_sd \in SdVals
    /\ root_n = Unset /\ delta = Unset
    /\ StatIdle /\ StdIdle /\ DriverIdle

CallCI ==
    /\ pc = "call"
    /\ root_n' = RootN(sample_size)
    /\ delta' = confidence_interval_mean(sample_size, sample_sd)
    /\ pc' = "return"
    /\ UNCHANGED <<libm, sample_size, sample_sd, StatVars, StdVars, DriverVars>>

NextCI == CallCI

SpecCI == InitCI /\ [][NextCI]_vars

----------------------------------------------------------------------------
(* Claims about confidence_interval_mean, checked under SpecCI *)

Covered == 1..18

\* C1 as stated: for every integer sample_size < 30 the call fails with a
\* lookup error (KeyError) when sample_size - 1 is not in 1..18 and returns a
\* value when it is.
C1_LookupErrorBelow30 ==
    (pc = "return" /\ sample_size < 30) =>
        IF (sample_size - 1) \in Covered
        THEN delta.exc = "none"
        ELSE delta.exc = "KeyError"

\* C1 amended: for sample_size < 30 the call returns a value exactly when
\* sample_size - 1 is in 1..18; it fails with a lookup error (KeyError) for
\* sample_size in {0, 1} and 20..29, and for a negative sample_size it fails
\* earlier, at root_n and before any lookup, with the ValueError of the
\* fractional power (the OverflowError of the conversion when the int is
\* beyond the float range).  No default critical value is ever substituted.
C1_FailsOutsideTable ==
    (pc = "return" /\ sample_size < 30) =>
        /\ (delta.exc = "none") <=> ((sample_size - 1) \in Covered)
        /\ (sample_size \in {0, 1} \cup (20..29)) => delta.exc = "KeyError"
        /\ (sample_size < 0) =>
              /\ delta = root_n
              /\ delta.exc = (IF 0 - sample_size < TooLarge THEN "ValueError"
                                                            ELSE "OverflowError")

C1_Witness ==
    pc = "return" /\ sample_size = 25 /\ delta.exc = "KeyError"

\* r is within one unit in the last place of the square root of v
RootOf(r, v) ==
    IF v.m = 0 THEN r = Zero
    ELSE /\ r.m > 0
         /\ v.e - 2 * r.e >= 0
         /\ (r.m - 1) * (r.m - 1) < v.m * 2^(v.e - 2 * r.e)
         /\ v.m * 2^(v.e - 2 * r.e) < (r.m + 1) * (r.m + 1)

\* C2 as stated: the critical value depends on the sample size alone: the
\* table entry for df = sample_size - 1 when 2 <= sample_size <= 19, and 1.96
\* without lookup or failure for every sample_size >= 30; the value returned
\* is critical * sample_sd / root_n, root_n the square root of sample_size.
C2_NoFailureFrom30 ==
    (pc = "return" /\ sample_size >= 2) =>
        /\ root_n.exc = "none"
        /\ RootOf(root_n.val, FromInt(sample_size))
        /\ (sample_size <= 19) =>
              delta = Ok(FDiv(FMul(Dec(TThousandths[sample_size - 1], 1000), sample_sd),
                              root_n.val))
        /\ (sample_size >= 30) =>
              delta = Ok(FDiv(FMul(Dec(196, 100), sample_sd), root_n.val))

\* C2 amended: the same for every sample_size within the float range; a
\* sample_size beyond it fails at root_n with the OverflowError of the
\* conversion to float.
C2_CriticalValueBySize ==
    (pc = "return" /\ sample_size >= 2) =>
        /\ (sample_size >= TooLarge) =>
              /\ root_n = Raise("OverflowError")
              /\ delta = Raise("OverflowError")
        /\ (sample_size < TooLarge) =>
              /\ root_n.exc = "none"
              /\ RootOf(root_n.val, FromInt(sample_size))
        /\ (sample_size <= 19) =>
              delta = Ok(FDiv(FMul(Dec(TThousandths[sample_size - 1], 1000), sample_sd),
                              root_n.val))
        /\ (sample_size >= 30 /\ sample_size < TooLarge) =>
              delta = Ok(FDiv(FMul(Dec(196, 100), sample_sd), root_n.val))

C2_Witness ==
    /\ pc = "return" /\ sample_size = 10 /\ sample_sd = FromInt(1)
    /\ delta.exc = "none"
    /\ Fmt(delta.val, 1000) = 715

----------------------------------------------------------------------------
(* Specification SpecStd: one call of get_average or of get_std_dev *)

MaxNums == 3     \* longest list passed to get_average / get_std_dev

NumVals == {Zero, Dec(1, 10), Dec(1, 2), FromInt(1), FromInt(999)}

RECURSIVE SeqsUpTo(_, _)
SeqsUpTo(S, n) ==
    IF n = 0 THEN {<<>>}
    ELSE LET shorter == SeqsUpTo(S, n - 1)
         IN  shorter \cup {Append(q, x) : q \in {t \in shorter : Len(t) = n - 1}, x \in S}

InitStd ==
    /\ pc = "call"
    /\ libm \in Libms
    /\ num \in SeqsUpTo(NumVals, MaxNums)
    /\ std = Unset
    /\ CIIdle /\ StatIdle /\ DriverIdle

CallAverage ==
    /\ pc = "call"
    /\ avg' = get_average(num)
    /\ pc' = "return_average"
    /\ UNCHANGED <<libm, num, std, CIVars, StatVars,
                   router, area, i, del_ratio, sd, ci, out, reads, error>>

CallStdDev ==
    /\ pc = "call"
    /\ std' = get_std_dev(num)
    /\ pc' = "return_std_dev"
    /\ UNCHANGED <<libm, num, CIVars, StatVars, DriverVars>>

NextStd == CallAverage \/ CallStdDev

SpecStd == InitStd /\ [][NextStd]_vars

----------------------------------------------------------------------------
(* Claims about get_std_dev, checked under SpecStd *)

AllEqual(q) == \A k \in DOMAIN q : q[k] = q[1]

\* s is within one unit in the last place of the square of d
SquareOf(s, d) ==
    IF d.m = 0 THEN s = Zero
    ELSE /\ s.m > 0
         /\ s.e - 2 * d.e >= 0
         /\ (s.m - 1) * 2^(s.e - 2 * d.e) < d.m * d.m
         /\ d.m * d.m < (s.m + 1) * 2^(s.e - 2 * d.e)

\* the sums of the squared deviations of q[1..k] from mean, in list order,
\* each square within one unit in the last place
RECURSIVE SquaredDeviations(_, _, _)
SquaredDeviations(q, mean, k) ==
    IF k = 0 THEN {Zero}
    ELSE LET dev == FSub(q[k], mean)
             squares == {Round(dev.m * dev.m, 2 * dev.e, mode) : mode \in Libms}
         IN  {FAdd(v, s) : v \in SquaredDeviations(q, mean, k - 1),
                           s \in {x \in squares : SquareOf(x, dev)}}

PopulationStdDev(r, q) ==
    \E v \in SquaredDeviations(q, get_average(q).val, Len(q)) :
        RootOf(r, FDiv(v, FromInt(Len(q))))

\* the square of q[k]'s deviation from mean is at least 2^bits
SquareReaches(q, mean, k, bits) ==
    LET dev == FSub(q[k], mean)
    IN  dev.m # 0 /\ BitLen(dev.m * dev.m) + 2 * dev.e > bits

\* C9 as stated: for a non-empty list get_std_dev returns the square root of
\* the sum of squared deviations from get_average divided by the count n, and
\* 0 for every list of length 1 and for every list of equal elements.
C9_ZeroWhenAllEqual ==
    (pc = "return_std_dev" /\ num # <<>>) =>
        /\ std.exc = "none"
        /\ PopulationStdDev(std.val, num)
        /\ AllEqual(num) => std.val = Zero

\* C9 amended: for a non-empty list get_std_dev returns the square root of
\* the sum of squared deviations from get_average divided by the count n
\* (never n - 1), unless the square of a deviation is beyond the float range,
\* when it fails with an OverflowError; it returns 0 for every list of length
\* 1, and for a list of equal elements whenever the average get_average
\* computes is that element.
C9_PopulationStdDev ==
    (pc = "return_std_dev" /\ num # <<>>) =>
        LET mean == get_average(num).val
        IN  /\ std.exc \in {"none", "OverflowError"}
            /\ std.exc = "none" => PopulationStdDev(std.val, num)
            /\ std.exc = "OverflowError" =>
                  \E k \in DOMAIN num : SquareReaches(num, mean, k, MaxExponent - 1)
            /\ (\E k \in DOMAIN num : SquareReaches(num, mean, k, MaxExponent)) =>
                  std.exc = "OverflowError"
            /\ Len(num) = 1 => std = Ok(Zero)
            /\ (AllEqual(num) /\ mean = num[1]) => std = Ok(Zero)

C9_Witness ==
    /\ pc = "return_std_dev"
    /\ num = <<Zero, FromInt(1), Dec(1, 2)>>
    /\ std.exc = "none"
    /\ Fmt(std.val, 100) = 41

----------------------------------------------------------------------------
(* Specification SpecStat: one call of get_stat *)

MaxFileLen == 8     \* characters in a report file

Alphabet == {"d", "1", " ", "\n"}

StatNames == {<<"d">>, <<"d", "1">>}

InitStat ==
    /\ pc = "call"
    /\ libm = "even"
    /\ report \in {NoReport} \cup
                  {[exists |-> TRUE, text |-> t] : t \in SeqsUpTo(Alphabet, MaxFileLen)}
    /\ stat_name \in StatNames
    /\ result = Unset
    /\ CIIdle /\ StdIdle /\ DriverIdle

CallStat ==
    /\ pc = "call"
    /\ result' = get_stat(report, stat_name)
    /\ pc' = "return"
    /\ UNCHANGED <<libm, report, stat_name, CIVars, StdVars, DriverVars>>

NextStat == CallStat

SpecStat == InitStat /\ [][NextStat]_vars

----------------------------------------------------------------------------
(* Claims about get_stat, checked under SpecStat *)

StartsWith(s, prefix) ==
    /\ Len(prefix) <= Len(s)
    /\ SubSeq(s, 1, Len(prefix)) = prefix

\* the lines whose first space-delimited field starts with name
Labelled(lines, name) ==
    {k \in DOMAIN lines : /\ Row(lines[k]) # <<>>
                          /\ StartsWith(Row(lines[k])[1], name)}

FirstLabelled(lines, name) ==
    CHOOSE k \in Labelled(lines, name) : \A j \in Labelled(lines, name) : k <= j

\* C3 as stated: whenever some line's first field starts with the requested
\* name, get_stat returns the second field of the first such line.
C3_ReturnsFirstMatch ==
    (pc = "return" /\ report.exists /\ Labelled(FileLines(report.text), stat_name) # {}) =>
        LET lines == FileLines(report.text)
            row == Row(lines[FirstLabelled(lines, stat_name)])
        IN  /\ result.exc = "none"
            /\ Len(row) >= 2
            /\ result = ParseFloat(row[2])

\* C3 amended: whenever some line's first field starts with the requested
\* name, the outcome of get_stat is decided by the first such line and the
\* lines before it: an IndexError if an empty line precedes it or it has no
\* second field, otherwise float() of its second field (the value, or the
\* ValueError of a field that is no number).  Lines after it, and lines whose
\* first field holds the name only at a position other than 0, never affect
\* the result.
C3_FirstMatchDecides ==
    (pc = "return" /\ report.exists /\ Labelled(FileLines(report.text), stat_name) # {}) =>
        LET lines == FileLines(report.text)
            first == FirstLabelled(lines, stat_name)
            row == Row(lines[first])
        IN  IF \E j \in 1..(first - 1) : lines[j] = <<>>
            THEN result = Raise("IndexError")
            ELSE IF Len(row) < 2
            THEN result = Raise("IndexError")
            ELSE result = ParseFloat(row[2])

\* "d 1", then "d d": the second line matches too and is no number
C3_Witness ==
    /\ pc = "return"
    /\ stat_name = <<"d">>
    /\ report = [exists |-> TRUE, text |-> <<"d", " ", "1", "\n", "d", " ", "d">>]
    /\ result = Ok(FromInt(1))

\* C4 as stated: for a readable file in which no label starts with the
\* requested name get_stat returns 0.0 and does not fail, whatever its lines
\* are, empty lines included.
C4_ZeroWhenNoMatch ==
    (pc = "return" /\ report.exists /\ Labelled(FileLines(report.text), stat_name) = {}) =>
        result = Ok(Zero)

\* C4 amended: for a readable file in which no label starts with the
\* requested name, get_stat returns 0.0 and does not fail when the file has
\* no empty line (lines with a single field included), and fails with an
\* IndexError when it has one.
C4_ZeroUnlessEmptyLine ==
    (pc = "return" /\ report.exists /\ Labelled(FileLines(report.text), stat_name) = {}) =>
        LET lines == FileLines(report.text)
        IN  IF \E j \in DOMAIN lines : lines[j] = <<>>
            THEN result = Raise("IndexError")
            ELSE result = Ok(Zero)

\* "1", then "1d 1": a single field, and the name at position 1 of a label
C4_Witness ==
    /\ pc = "return"
    /\ stat_name = <<"d">>
    /\ report = [exists |-> TRUE, text |-> <<"1", "\n", "1", "d", " ", "1">>]
    /\ result = Ok(Zero)

----------------------------------------------------------------------------
(* del_ratio.py *)

routers == <<"EpidemicRouter", "SprayAndWaitRouter">>

areas == <<"500,500", "1000,1000", "1500,1500">>

rng_max == 5

\* stat_name = 'delivery_prob', the default of get_stat
DefaultStat == <<"d", "e", "l", "i", "v", "e", "r", "y", "_", "p", "r", "o", "b">>

\* 'scenario_%s_area-%s_rng-%d_MessageStatsReport.txt' % (router, area, i)
FileName(r, a, k) == [router |-> routers[r], area |-> areas[a], rng |-> k]

\* print '# Router', router
Header(r) == <<"# Router", routers[r]>>

\* print '%s %.2f %.4f' % (area, avg, ci)
DataLine(a, mean, half) == <<areas[a], Fmt(mean, 100), Fmt(half, 10000)>>

OneBlankLine == << <<>> >>

\* print '\n': the newline printed and the one print adds
BlankLines == << <<>>, <<>> >>

SampleSizeArgPartial(samples) == Len(samples)

\* the sample size passed to confidence_interval_mean (line 34)
SampleSizeArg(samples) == rng_max

\* The report files the script finds

MaxOddReports == 1     \* files of a run that differ from the usual report

CreatedLine == <<"c", "r", "e", "a", "t", "e", "d", ":", " ", "9", "\n">>

ProbLabel == DefaultStat \o <<":">>

Readable(text) == [exists |-> TRUE, text |-> text]

\* "created: 9", "delivery_prob: 0.5"
UsualReport == Readable(CreatedLine \o ProbLabel \o <<" ", "0", ".", "5", "\n">>)

OddReports ==
    { Readable(CreatedLine \o ProbLabel \o <<" ", "0", ".", "9", "\n">>),
      Readable(CreatedLine \o ProbLabel \o <<" ", "9", "9", "9", "\n">>),
      Readable(CreatedLine),                         \* no delivery_prob line
      Readable(CreatedLine \o ProbLabel \o <<"\n">>), \* no value
      Readable(ProbLabel \o <<" ", "-", "\n">>),      \* no number
      NoReport }                                     \* no such file

Reports == {UsualReport} \cup OddReports

\* what get_stat returns, or raises, for each of them
Stats == [file \in Reports |-> get_stat(file, DefaultStat)]

ReadStatOrZero(file) == IF Stats[file].exc # "none" THEN Ok(Zero) ELSE Stats[file]

\* gs.get_stat(fname)
ReadStat(file) == Stats[file]

KeepSamples(samples) == samples

\* del_ratio = []
FreshSamples(samples) == <<>>

Failure(o, where) == [exc |-> o.exc, in |-> where]

\* The state a pass of the inner loop (lines 28-39) leaves: the values of
\* del_ratio, avg, sd and ci, the lines it printed, and the exception that
\* ended the script with the call that raised it (NoError if none did).
After(samples, mean, dev, half, lines, e) ==
    [del_ratio |-> samples, avg |-> mean, sd |-> dev, ci |-> half,
     printed |-> lines, error |-> e]

\* print '%s %.2f %.4f' % (area, avg, ci,) and print '\n' (lines 36-39)
Printed(half, dev, mean, samples, a) ==
    IF half.exc # "none"
    THEN After(samples, mean, dev, Unset, <<>>, Failure(half, "confidence_interval_mean"))
    ELSE After(samples, mean, dev, half,
               <<DataLine(a, mean.val, half.val)>> \o BlankLines, NoError)

\* ci = gs.confidence_interval_mean(rng_max, sd) (line 34)
WithStdDev(dev, mean, samples, a) ==
    IF dev.exc # "none"
    THEN After(samples, mean, Unset, Unset, <<>>, Failure(dev, "get_std_dev"))
    ELSE Printed(confidence_interval_mean(SampleSizeArg(samples), dev.val),
                 dev, mean, samples, a)

\* sd = gs.get_std_dev(del_ratio) (line 33)
WithAverage(mean, samples, a) ==
    IF mean.exc # "none"
    THEN After(samples, Unset, Unset, Unset, <<>>, Failure(mean, "get_average"))
    ELSE WithStdDev(get_std_dev(samples), mean, samples, a)

\* the statistics taken before the sample is appended
WithStatBeforeAppend(s, samples, a) ==
    IF s.exc # "none"
    THEN After(samples, Unset, Unset, Unset, <<>>, Failure(s, "get_stat"))
    ELSE WithAverage(get_average(samples), samples, a)

\* del_ratio.append(...) and avg = gs.get_average(del_ratio) (lines 29, 32)
WithStat(s, samples, a) ==
    IF s.exc # "none"
    THEN After(samples, Unset, Unset, Unset, <<>>, Failure(s, "get_stat"))
    ELSE WithAverage(get_average(Append(samples, s.val)), Append(samples, s.val), a)

\* one pass of the inner loop reading `file`
Pass(file, a, samples) == WithStat(ReadStat(file), samples, a)

----------------------------------------------------------------------------
(* Specification SpecDriver: a run of del_ratio.py *)

OddReads == {k \in DOMAIN reads : reads[k].report # UsualReport}

\* what the file opened next may hold
Found ==
    {UsualReport} \cup
    (IF Cardinality(OddReads) < MaxOddReports THEN OddReports ELSE {})

InitDriver ==
    /\ pc = "routers"
    /\ libm \in Libms
    /\ DriverIdle
    /\ CIIdle /\ StatIdle /\ StdIdle

\* for router in routers: print '# Router', router
NextRouter ==
    /\ pc = "routers"
    /\ router < Len(routers)
    /\ router' = router + 1
    /\ area' = 0
    /\ out' = Append(out, Header(router + 1))
    /\ pc' = "areas"
    /\ UNCHANGED <<libm, i, del_ratio, avg, sd, ci, reads, error,
                   CIVars, StatVars, StdVars>>

\* the script ends
RoutersDone ==
    /\ pc = "routers"
    /\ router = Len(routers)
    /\ pc' = "done"
    /\ UNCHANGED <<libm, DriverVars, CIVars, StatVars, StdVars>>

\* for area in areas: del_ratio = []
NextArea ==
    /\ pc = "areas"
    /\ area < Len(areas)
    /\ area' = area + 1
    /\ del_ratio' = FreshSamples(del_ratio)
    /\ i' = 0
    /\ pc' = "runs"
    /\ UNCHANGED <<libm, router, avg, sd, ci, out, reads, error,
                   CIVars, StatVars, StdVars>>

AreasDone ==
    /\ pc = "areas"
    /\ area = Len(areas)
    /\ pc' = "routers"
    /\ UNCHANGED <<libm, DriverVars, CIVars, StatVars, StdVars>>

\* for i in xrange(1, rng_max+1): the body, lines 28-39.  A pass that
\* fails leaves avg, sd and ci as they were.
Run ==
    /\ pc = "runs"
    /\ i < rng_max
    /\ i' = i + 1
    /\ \E file \in Found : \E after \in {Pass(file, area, del_ratio)} :
          /\ reads' = Append(reads, [file |-> FileName(router, area, i + 1),
                                     report |-> file])
          /\ del_ratio' = after.del_ratio
          /\ avg' = IF after.avg = Unset THEN avg ELSE after.avg
          /\ sd' = IF after.sd = Unset THEN sd ELSE after.sd
          /\ ci' = IF after.ci = Unset THEN ci ELSE after.ci
          /\ out' = out \o after.printed
          /\ error' = after.error
          /\ pc' = IF after.error.exc = "none" THEN "runs" ELSE "failed"
    /\ UNCHANGED <<libm, router, area, CIVars, StatVars, StdVars>>

RunsDone ==
    /\ pc = "runs"
    /\ i = rng_max
    /\ pc' = "areas"
    /\ UNCHANGED <<libm, DriverVars, CIVars, StatVars, StdVars>>

NextDriver ==
    \/ NextRouter
    \/ RoutersDone
    \/ NextArea
    \/ AreasDone
    \/ Run
    \/ RunsDone

SpecDriver == InitDriver /\ [][NextDriver]_vars

----------------------------------------------------------------------------
(* Claims about the driver, checked under SpecDriver *)

\* what get_stat makes of a file that was opened
StatOf(read) == Stats[read.report]

\* the reads of the current (router, area) combination, in order
CurrentReads ==
    SelectSeq(reads, LAMBDA e : e.file.router = routers[router] /\ e.file.area = areas[area])

\* the samples those reads delivered
Collected ==
    LET good == SelectSeq(CurrentReads, LAMBDA e : StatOf(e).exc = "none")
    IN  [k \in 1..Len(good) |-> StatOf(good[k]).val]

InCombination == router >= 1 /\ area >= 1

LastReadDelivered ==
    /\ reads # <<>>
    /\ StatOf(reads[Len(reads)]).exc = "none"

\* C5: at run index i of a combination the average and the standard deviation
\* are those of exactly the i samples of that combination collected so far,
\* the sample size passed to the confidence interval is the total run count 5
\* at every i, and the line printed shows that average and that interval.
C5_RunningStatistics ==
    (InCombination /\ i >= 1 /\ LastReadDelivered /\ error.in # "get_std_dev") =>
        LET samples == Collected
        IN  /\ Len(samples) = i
            /\ avg = get_average(samples)
            /\ sd = get_std_dev(samples)
            /\ ci = confidence_interval_mean(5, sd.val)
            /\ ci.exc = "none"
            /\ Len(out) >= 3
            /\ out[Len(out) - 2] = <<areas[area], Fmt(avg.val, 100), Fmt(ci.val, 10000)>>

\* the third run of a combination, one sample differing from the other two
C5_Witness ==
    /\ pc = "runs" /\ i = 3
    /\ sd.exc = "none" /\ sd.val # Zero
    /\ ci.exc = "none" /\ ci.val # Zero

LinesPerRouter == 1 + Len(areas) * rng_max * 3

\* what the n-th line of a complete output is
ExpectedLine(n) ==
    LET r == ((n - 1) \div LinesPerRouter) + 1
        p == (n - 1) % LinesPerRouter
    IN  IF p = 0 THEN <<"header", routers[r]>>
        ELSE IF (p - 1) % 3 = 0 THEN <<"data", areas[((p - 1) \div (3 * rng_max)) + 1]>>
        ELSE <<"blank", "">>

KindOf(line) ==
    IF line = <<>> THEN <<"blank", "">>
    ELSE IF Len(line) = 2 THEN <<"header", line[2]>>
    ELSE <<"data", line[1]>>

IsPrefix(p, q) == Len(p) <= Len(q) /\ SubSeq(q, 1, Len(p)) = p

\* C7: the sample sequence has between 0 and 5 elements and holds exactly the
\* samples of the current combination; a step that changes it either appends
\* one sample for the next run index of the same combination, the earlier
\* elements unchanged, or starts a new combination and empties it.
C7_SampleSequence ==
    /\ [](/\ Len(del_ratio) \in 0..5
          /\ InCombination => del_ratio = Collected)
    /\ [][/\ del_ratio' # del_ratio =>
                \/ /\ router' = router /\ area' = area /\ i' = i + 1
                   /\ Len(del_ratio') = Len(del_ratio) + 1
                   /\ IsPrefix(del_ratio, del_ratio')
                \/ /\ area' # area
                   /\ del_ratio' = <<>>
          /\ (area' # area /\ area' >= 1) => (del_ratio' = <<>> /\ i' = 0)
         ]_vars

\* the second combination under way, the first one's five samples gone
C7_Witness ==
    /\ router = 1 /\ area = 2 /\ i = 2
    /\ Len(del_ratio) = 2
    /\ Len(reads) = 7

DataLines == {n \in DOMAIN out : Len(out[n]) = 3}

\* C8: a read that fails is the last thing the script does: the failing read
\* is the last read, no file is read twice, the data lines printed are those
\* of the reads before it, and from then on nothing changes; the step that
\* fails prints nothing.
C8_ReadFailureHalts ==
    /\ [](/\ \A k \in DOMAIN reads :
                StatOf(reads[k]).exc # "none" =>
                    /\ k = Len(reads)
                    /\ pc = "failed"
                    /\ error = [exc |-> StatOf(reads[k]).exc, in |-> "get_stat"]
                    /\ Cardinality(DataLines) = k - 1
          /\ \A j, k \in DOMAIN reads : reads[j].file = reads[k].file => j = k)
    /\ [][/\ pc # "failed"
          /\ pc' = "failed" => out' = out
          /\ IsPrefix(out, out')
         ]_vars

\* the file of the third run of the second area is missing
C8_Witness ==
    /\ pc = "failed"
    /\ error = [exc |-> "IOError", in |-> "get_stat"]
    /\ area = 2 /\ i = 3
    /\ Cardinality(DataLines) = 7

\* C10 as stated: with the run count 5, once get_stat has returned nothing
\* else fails: the list passed to get_average and get_std_dev has 1 to 5
\* elements, the table is looked up at df = 4 only, and the only failure the
\* script can end with is one raised by get_stat.
C10_OnlyReadsFail ==
    /\ pc = "failed" => error.in = "get_stat"
    /\ (InCombination /\ i >= 1 /\ LastReadDelivered) =>
          /\ Len(del_ratio) \in 1..5
          /\ avg.exc = "none" /\ sd.exc = "none" /\ ci.exc = "none"
          /\ ci.val = FDiv(FMul(Dec(2776, 1000), sd.val), FRoot(FromInt(5)))

\* C10 amended: with the run count 5, once get_stat has returned the one
\* helper failure left is the OverflowError of get_std_dev, raised when the
\* square of a sample's deviation from the average is beyond the float
\* range: get_average and get_std_dev are called on 1 to 5 elements only,
\* get_average never fails, the table is looked up at df = 4 only, and every
\* other failure of the script is one raised by get_stat.
C10_ReadsOrOverflowFail ==
    /\ pc = "failed" =>
          \/ error.in = "get_stat"
          \/ /\ error = [exc |-> "OverflowError", in |-> "get_std_dev"]
             /\ LastReadDelivered
             /\ avg.exc = "none"
             /\ \E k \in DOMAIN del_ratio :
                    SquareReaches(del_ratio, avg.val, k, MaxExponent - 1)
    /\ (InCombination /\ i >= 1 /\ LastReadDelivered) =>
          /\ Len(del_ratio) \in 1..5
          /\ avg.exc = "none"
    /\ (InCombination /\ i >= 1 /\ LastReadDelivered /\ pc # "failed") =>
          /\ sd.exc = "none" /\ ci.exc = "none"
          /\ ci.val = FDiv(FMul(Dec(2776, 1000), sd.val), FRoot(FromInt(5)))
          /\ \A k \in DOMAIN del_ratio :
                ~SquareReaches(del_ratio, avg.val, k, MaxExponent)

C10_Witness ==
    /\ pc = "runs" /\ i = 5
    /\ Len(del_ratio) = 5
    /\ ci.exc = "none" /\ ci.val # Zero

====
